---- MODULE Spec2Model ----
(***************************************************************************)
(* Model of BusinessCapabilityMapping (src/app.py): construction, run()    *)
(* and post_processing().  run() is cut at its suspension points (the      *)
(* awaits on the completion and embedding collaborator) and, between       *)
(* them, at the iterations of its loops.                                   *)
(*                                                                         *)
(* Text is modelled by TLA+ strings.  A completion's content is modelled   *)
(* by what JsonOutputParser makes of it: either it does not parse, or it   *)
(* is a dict with the list "matched_capabilities".  Descriptions are text  *)
(* without trailing NUL characters (the one thing a numpy unicode array    *)
(* does not give back).                                                    *)
(***************************************************************************)
EXTENDS Integers, Sequences, FiniteSets, TLC

VARIABLES
    pc,                       \* position of the stage: see Positions
    additional_args,          \* the dict handed to __init__ (a function on its keys)
    nodes,                    \* run()'s argument: the artifacts, in order
    llm,                      \* what the model answers to each prompt of this run
    completion_calls,         \* every batch_completion call made, in order
    capability_responses,     \* what batch_completion returned
    done,                     \* number of completions the validation loop has consumed
    capability_texts,         \* run()'s local list of accepted descriptions
    caps,                     \* run()'s local list of accepted (id, capability, description)
    warnings,                 \* the logger.warning calls made, in order
    capability_texts_batches, \* the chunks np.array_split produced
    embedding_calls,          \* every generate_embeddings call made, in order
    capability_embeddings,    \* run()'s local list of vectors
    in_flight,                \* external requests issued and not yet answered
    returned,                 \* what run() returned (<<>> until it returns)
    error,                    \* the exception that left the stage, "none" if none
    indexes,                  \* the graph store: its indexes, and whether a statement failed
    queries,                  \* the index statements post_processing executed, in order
    post_runs,                \* number of post_processing() calls made
    post_returned             \* what the last post_processing() call returned

vars == <<pc, additional_args, nodes, llm, completion_calls, capability_responses,
          done, capability_texts, caps, warnings, capability_texts_batches,
          embedding_calls, capability_embeddings, in_flight, returned, error,
          indexes, queries, post_runs, post_returned>>

(***************************************************************************)
(* Bounds of the model.                                                    *)
(***************************************************************************)
MaxArtifacts == 2      \* artifacts of a run, small scenarios
MaxMatches == 2        \* matches one completion reports, small scenarios
MaxTexts == 250        \* matches the completion of the large scenarios reports
MaxPostRuns == 2       \* post_processing() calls against the same store

(***************************************************************************)
(* Program constants.                                                      *)
(***************************************************************************)
BatchLimit == 100

BUSINESS_CAPABILITY_MAPPING == "BusinessCapabilityMapping"
CAPABILITY_NODE_TYPE == "CAPABILITY"
CAPABILITY_SUMMARY_NODE_TYPE == "CAPABILITY_SUMMARY"
CODE_SUMMARY == "CODE_SUMMARY"
CAPABILITIES_REQUIRED_ERROR == "capabilities is required in additional_args"
NUMBER_SECTIONS_ERROR == "number sections must be larger than 0."

Positions == {"new", "config_error", "ready", "dispatching", "validating",
              "embedding", "embed_wait", "returned", "raised"}

(***************************************************************************)
(* Python builtins                                                         *)
(***************************************************************************)
\* str.lower() on the capability names of the model
lower(s) ==
    CASE s = "Auth" -> "auth"
      [] s = "AUTH" -> "auth"
      [] s = "Logging" -> "logging"
      [] s = "Billing" -> "billing"
      [] OTHER -> s

\* dict.get(key, default)
get(dict, key, default) == IF key \in DOMAIN dict THEN dict[key] ELSE default

Range(s) == {s[i] : i \in 1..Len(s)}

RECURSIVE concat(_)
\* the concatenation of a list of lists
concat(ss) == IF ss = <<>> THEN <<>> ELSE Head(ss) \o concat(Tail(ss))

(***************************************************************************)
(* The inputs of a run                                                     *)
(***************************************************************************)
Node(i) == [id |-> "node" \o ToString(i), page_content |-> "code" \o ToString(i)]

ReportedCapabilities == {"Auth", "logging"}

\* the description the model gives for the j-th match of artifact i
Description(i, j) == "summary " \o ToString(i) \o "." \o ToString(j)

Malformed == [json |-> FALSE, matched_capabilities |-> <<>>]

\* what the model reports as k matches of artifact i, their capabilities being cs
Reported(i, k, cs) ==
    [json |-> TRUE,
     matched_capabilities |->
         [j \in 1..k |-> [capability |-> cs[j], description |-> Description(i, j)]]]

\* the contents the model may answer for artifact i: one that does not parse, or
\* up to n reported matches
Contents(i, n) ==
    {Malformed} \cup
    UNION {{Reported(i, k, cs) : cs \in [1..k -> ReportedCapabilities]} : k \in 0..n}

RECURSIVE Answers(_)
\* the answers to the prompts of n artifacts, one content per prompt
Answers(n) ==
    IF n = 0 THEN {<<>>}
    ELSE {Append(a, c) : a \in Answers(n - 1), c \in Contents(n, MaxMatches)}

Configurations ==
    { <<>>,
      [capabilities |-> <<>>],
      [capabilities |-> <<"auth", "billing">>],
      [capabilities |-> <<"AUTH", "Logging">>] }

InitLocals ==
    /\ pc = "new"
    /\ completion_calls = <<>>
    /\ capability_responses = <<>>
    /\ done = 0
    /\ capability_texts = <<>>
    /\ caps = <<>>
    /\ warnings = <<>>
    /\ capability_texts_batches = <<>>
    /\ embedding_calls = <<>>
    /\ capability_embeddings = <<>>
    /\ in_flight = 0
    /\ returned = <<>>
    /\ error = "none"
    /\ indexes = [indexes |-> <<>>, failed |-> FALSE]
    /\ queries = <<>>
    /\ post_runs = 0
    /\ post_returned = <<>>

\* small scenarios: any configuration, up to MaxArtifacts artifacts, any answers
InitSmall ==
    /\ additional_args \in Configurations
    /\ \E n \in 0..MaxArtifacts :
          /\ nodes = [i \in 1..n |-> Node(i)]
          /\ llm \in Answers(n)

\* large scenarios: one artifact whose completion reports many matches
InitLarge ==
    /\ additional_args = [capabilities |-> <<"auth", "billing">>]
    /\ nodes = <<Node(1)>>
    /\ \E n \in (MaxMatches + 1)..MaxTexts :
          llm = <<Reported(1, n, [j \in 1..n |-> "Auth"])>>

Init == InitLocals /\ (InitSmall \/ InitLarge)

(***************************************************************************)
(* __init__                                                                *)
(***************************************************************************)
Construct ==
    /\ pc = "new"
    /\ IF "capabilities" \notin DOMAIN additional_args
          THEN pc' = "config_error" /\ error' = CAPABILITIES_REQUIRED_ERROR
          ELSE pc' = "ready" /\ error' = error
    /\ UNCHANGED <<additional_args, nodes, llm, completion_calls, capability_responses,
                   done, capability_texts, caps, warnings, capability_texts_batches,
                   embedding_calls, capability_embeddings, in_flight, returned,
                   indexes, queries, post_runs, post_returned>>

(***************************************************************************)
(* run(): prompts and the completion dispatch                              *)
(***************************************************************************)
\* documents = [node_to_document(node) for node in nodes]
documents(ns) == [i \in 1..Len(ns) |-> [page_content |-> ns[i].page_content,
                                         metadata |-> [id |-> ns[i].id]]]

capabilities(args) == get(args, "capabilities", <<>>)

\* [mutant] the taxonomy compared as configured, not lower-cased
valid_capabilities_as_given(args) == capabilities(args)

\* valid_capabilities = [cap.lower() for cap in capabilities]
valid_capabilities(args) ==
    [i \in 1..Len(capabilities(args)) |-> lower(capabilities(args)[i])]

\* the system/user message pair built for one document
prompt(document, args) ==
    << [role |-> "system", content |-> capabilities(args)],
       [role |-> "user", content |-> document.page_content] >>

prompts(ns, args) == [i \in 1..Len(ns) |-> prompt(documents(ns)[i], args)]

\* [mutant] one batch_completion call per prompt instead of one for the list
CompletionRequests_per_prompt(ps) == [i \in 1..Len(ps) |-> << ps[i] >>]

\* the batch_completion calls run() issues for its prompts, one per list
CompletionRequests(ps) == << ps >>

\* the awaited call of batch_completion
RunStart ==
    /\ pc = "ready"
    /\ completion_calls' = completion_calls \o CompletionRequests(prompts(nodes, additional_args))
    /\ in_flight' = in_flight + Len(CompletionRequests(prompts(nodes, additional_args)))
    /\ pc' = "dispatching"
    /\ UNCHANGED <<additional_args, nodes, llm, capability_responses,
                   done, capability_texts, caps, warnings, capability_texts_batches,
                   embedding_calls, capability_embeddings, returned, error,
                   indexes, queries, post_runs, post_returned>>

\* the completion collaborator: one payload per prompt, in the order of the prompts
batch_completion(ps, answers) ==
    [i \in 1..Len(ps) |-> [choices |-> <<[message |-> [content |-> answers[i]]]>>]]

DispatchReturn ==
    /\ pc = "dispatching"
    /\ capability_responses' = batch_completion(prompts(nodes, additional_args), llm)
    /\ in_flight' = in_flight - 1
    /\ pc' = "validating"
    /\ UNCHANGED <<additional_args, nodes, llm, completion_calls,
                   done, capability_texts, caps, warnings, capability_texts_batches,
                   embedding_calls, capability_embeddings, returned, error,
                   indexes, queries, post_runs, post_returned>>

\* the collaborator raises: nothing in run() catches it
DispatchFail ==
    /\ pc = "dispatching"
    /\ in_flight' = in_flight - 1
    /\ pc' = "raised"
    /\ error' = "batch_completion failed"
    /\ UNCHANGED <<additional_args, nodes, llm, completion_calls, capability_responses,
                   done, capability_texts, caps, warnings, capability_texts_batches,
                   embedding_calls, capability_embeddings, returned,
                   indexes, queries, post_runs, post_returned>>

(***************************************************************************)
(* run(): the validation loop                                              *)
(***************************************************************************)
\* zip(xs, ys) stops at the shorter list
ziplen(xs, ys) == IF Len(xs) <= Len(ys) THEN Len(xs) ELSE Len(ys)

\* c["capability"].lower() in [*valid_capabilities]
is_valid(c, valid) == \E k \in 1..Len(valid) : valid[k] = lower(c.capability)

\* [mutant] the inner loop stops at the first match outside the taxonomy
accepted_until_invalid(cs, document, valid) ==
    LET bad == {j \in 1..Len(cs) : ~is_valid(cs[j], valid)}
        kept == IF bad = {} THEN cs
                ELSE SubSeq(cs, 1, (CHOOSE j \in bad : \A k \in bad : j <= k) - 1)
    IN  [k \in 1..Len(kept) |->
            <<document.metadata.id, kept[k].capability, kept[k].description>>]

\* the tuples the inner loop appends to caps for the matches cs of one document:
\* the valid ones, in the order reported
accepted(cs, document, valid) ==
    LET kept == SelectSeq(cs, LAMBDA c : is_valid(c, valid))
    IN  [k \in 1..Len(kept) |->
            <<document.metadata.id, kept[k].capability, kept[k].description>>]

\* the matches the inner loop warns about, in order
rejected(cs, valid) == SelectSeq(cs, LAMBDA c : ~is_valid(c, valid))

\* [mutant] a completion that does not parse is skipped and the loop goes on
Validate_skipping_malformed ==
    /\ pc = "validating"
    /\ done < ziplen(capability_responses, documents(nodes))
    /\ LET content == capability_responses[done + 1].choices[1].message.content
           document == documents(nodes)[done + 1]
           valid == valid_capabilities(additional_args)
           new == accepted(content.matched_capabilities, document, valid)
       IN  IF ~content.json
              THEN /\ done' = done + 1
                   /\ UNCHANGED <<pc, error, caps, capability_texts, warnings>>
              ELSE /\ caps' = caps \o new
                   /\ capability_texts' = capability_texts \o [k \in 1..Len(new) |-> new[k][3]]
                   /\ warnings' = warnings \o rejected(content.matched_capabilities, valid)
                   /\ done' = done + 1
                   /\ UNCHANGED <<pc, error>>
    /\ UNCHANGED <<additional_args, nodes, llm, completion_calls, capability_responses,
                   capability_texts_batches, embedding_calls, capability_embeddings,
                   in_flight, returned, indexes, queries, post_runs, post_returned>>

\* one iteration of the loop over zip(capability_responses, documents)
Validate ==
    /\ pc = "validating"
    /\ done < ziplen(capability_responses, documents(nodes))
    /\ LET content == capability_responses[done + 1].choices[1].message.content
           document == documents(nodes)[done + 1]
           valid == valid_capabilities(additional_args)
           new == accepted(content.matched_capabilities, document, valid)
       IN  IF ~content.json
              THEN /\ pc' = "raised"
                   /\ error' = "OutputParserException"
                   /\ UNCHANGED <<done, caps, capability_texts, warnings>>
              ELSE /\ caps' = caps \o new
                   /\ capability_texts' = capability_texts \o [k \in 1..Len(new) |-> new[k][3]]
                   /\ warnings' = warnings \o rejected(content.matched_capabilities, valid)
                   /\ done' = done + 1
                   /\ UNCHANGED <<pc, error>>
    /\ UNCHANGED <<additional_args, nodes, llm, completion_calls, capability_responses,
                   capability_texts_batches, embedding_calls, capability_embeddings,
                   in_flight, returned, indexes, queries, post_runs, post_returned>>

(***************************************************************************)
(* run(): batching the descriptions                                        *)
(***************************************************************************)
\* int(np.ceil(n / 100))
ceil_div(n, d) == IF n % d = 0 THEN n \div d ELSE n \div d + 1

\* np.asarray of a list of str: an array of numpy strings
asarray(xs) == [i \in 1..Len(xs) |-> [np_str |-> xs[i]]]

\* str() of a numpy string
str(x) == x.np_str

\* numpy's section sizes: a leading 0, then extras sections of Neach + 1 elements,
\* then sections of Neach elements
section_sizes(Ntotal, Nsections) ==
    LET Neach == Ntotal \div Nsections
        extras == Ntotal % Nsections
    IN  [k \in 1..(Nsections + 1) |->
            IF k = 1 THEN 0 ELSE IF k - 1 <= extras THEN Neach + 1 ELSE Neach]

RECURSIVE cumsum(_)
cumsum(xs) ==
    IF xs = <<>> THEN <<>>
    ELSE LET front == cumsum(SubSeq(xs, 1, Len(xs) - 1))
         IN  Append(front, (IF front = <<>> THEN 0 ELSE front[Len(front)]) + xs[Len(xs)])

\* [mutant] chunks of a fixed size, the last one holding the remainder
array_split_fixed_size(ary, Nsections) ==
    LET sary == asarray(ary)
    IN  [i \in 1..Nsections |->
            SubSeq(sary, (i - 1) * BatchLimit + 1,
                   IF i * BatchLimit <= Len(ary) THEN i * BatchLimit ELSE Len(ary))]

\* np.array_split(ary, Nsections) for Nsections > 0
array_split(ary, Nsections) ==
    LET div_points == cumsum(section_sizes(Len(ary), Nsections))
        sary == asarray(ary)
    IN  [i \in 1..Nsections |-> SubSeq(sary, div_points[i] + 1, div_points[i + 1])]

\* the loop over the completions ends; the descriptions are split into batches
Split ==
    /\ pc = "validating"
    /\ done = ziplen(capability_responses, documents(nodes))
    /\ LET capability_texts_batch_size == ceil_div(Len(capability_texts), BatchLimit)
       IN  IF capability_texts_batch_size <= 0
              THEN /\ pc' = "raised"
                   /\ error' = NUMBER_SECTIONS_ERROR
                   /\ UNCHANGED capability_texts_batches
              ELSE /\ capability_texts_batches' =
                          array_split(capability_texts, capability_texts_batch_size)
                   /\ pc' = "embedding"
                   /\ UNCHANGED error
    /\ UNCHANGED <<additional_args, nodes, llm, completion_calls, capability_responses,
                   done, capability_texts, caps, warnings,
                   embedding_calls, capability_embeddings, in_flight, returned,
                   indexes, queries, post_runs, post_returned>>

(***************************************************************************)
(* run(): the embedding loop                                               *)
(***************************************************************************)
\* the vector of a text
Embedding(text) == <<"vector", text>>

\* the embedding collaborator: one vector per text, in the order of the texts
generate_embeddings(texts) == [i \in 1..Len(texts) |-> Embedding(texts[i])]

\* [mutant] the vectors of a batch put in front of those already held
extend_in_front(embeddings, vectors) == vectors \o embeddings

\* capability_embeddings += <the vectors of one batch>
extend(embeddings, vectors) == embeddings \o vectors

\* the awaited call of generate_embeddings for the next batch
EmbedCall ==
    /\ pc = "embedding"
    /\ Len(embedding_calls) < Len(capability_texts_batches)
    /\ LET capability_batch == capability_texts_batches[Len(embedding_calls) + 1]
       IN  embedding_calls' =
               Append(embedding_calls,
                      [i \in 1..Len(capability_batch) |-> str(capability_batch[i])])
    /\ in_flight' = in_flight + 1
    /\ pc' = "embed_wait"
    /\ UNCHANGED <<additional_args, nodes, llm, completion_calls, capability_responses,
                   done, capability_texts, caps, warnings, capability_texts_batches,
                   capability_embeddings, returned, error,
                   indexes, queries, post_runs, post_returned>>

EmbedReturn ==
    /\ pc = "embed_wait"
    /\ capability_embeddings' =
           extend(capability_embeddings,
                  generate_embeddings(embedding_calls[Len(embedding_calls)]))
    /\ in_flight' = in_flight - 1
    /\ pc' = "embedding"
    /\ UNCHANGED <<additional_args, nodes, llm, completion_calls, capability_responses,
                   done, capability_texts, caps, warnings, capability_texts_batches,
                   embedding_calls, returned, error,
                   indexes, queries, post_runs, post_returned>>

\* the collaborator raises: nothing in run() catches it
EmbedFail ==
    /\ pc = "embed_wait"
    /\ in_flight' = in_flight - 1
    /\ pc' = "raised"
    /\ error' = "generate_embeddings failed"
    /\ UNCHANGED <<additional_args, nodes, llm, completion_calls, capability_responses,
                   done, capability_texts, caps, warnings, capability_texts_batches,
                   embedding_calls, capability_embeddings, returned,
                   indexes, queries, post_runs, post_returned>>

(***************************************************************************)
(* run(): the entities                                                     *)
(***************************************************************************)
generator(args) == get(args, "generator", BUSINESS_CAPABILITY_MAPPING)

\* Capability(...) for one (id, cap, summary) of caps
Capability(m, args) ==
    [id |-> m[2],
     summary |-> "",
     summaryVector |-> <<>>,
     type |-> CAPABILITY_NODE_TYPE,
     related_to_id |-> <<m[1]>>,
     display_name |-> m[2],
     generator |-> generator(args),
     latestUpdateGenerator |-> generator(args)]

\* str(uuid.uuid4()): the k-th fresh identifier of the run
uuid4(k) == "uuid-" \o ToString(k)

\* [mutant] the summary entity related to the capability instead of the artifact
CodeSummary_related_to_capability(m, embeddings, k, args) ==
    [id |-> uuid4(k),
     summary |-> m[3],
     summaryVector |-> embeddings,
     type |-> CODE_SUMMARY,
     related_to_id |-> <<m[2]>>,
     source_content |-> "",
     codeVector |-> <<>>,
     display_name |-> m[2],
     generator |-> generator(args),
     latestUpdateGenerator |-> generator(args)]

\* CodeSummary(...) for one (id, cap, summary) of caps and its vector
CodeSummary(m, embeddings, k, args) ==
    [id |-> uuid4(k),
     summary |-> m[3],
     summaryVector |-> embeddings,
     type |-> CODE_SUMMARY,
     related_to_id |-> <<m[1]>>,
     source_content |-> "",
     codeVector |-> <<>>,
     display_name |-> m[2],
     generator |-> generator(args),
     latestUpdateGenerator |-> generator(args)]

\* the two comprehensions over zip(caps, capability_embeddings)
enriched_nodes(cs, embeddings, args) ==
    [k \in 1..ziplen(cs, embeddings) |-> Capability(cs[k], args)]
    \o [k \in 1..ziplen(cs, embeddings) |-> CodeSummary(cs[k], embeddings[k], k, args)]

\* the loop over the batches ends; run() returns the entities
Return ==
    /\ pc = "embedding"
    /\ Len(embedding_calls) = Len(capability_texts_batches)
    /\ returned' = enriched_nodes(caps, capability_embeddings, additional_args)
    /\ pc' = "returned"
    /\ UNCHANGED <<additional_args, nodes, llm, completion_calls, capability_responses,
                   done, capability_texts, caps, warnings, capability_texts_batches,
                   embedding_calls, capability_embeddings, in_flight, error,
                   indexes, queries, post_runs, post_returned>>

(***************************************************************************)
(* post_processing()                                                       *)
(***************************************************************************)
\* CREATE VECTOR INDEX `capability-summary-embeddings` IF NOT EXISTS
\* FOR (n:CAPABILITY) ON (n.summaryVector)
VectorIndexQuery ==
    [kind |-> "VECTOR", name |-> "capability-summary-embeddings", if_not_exists |-> TRUE,
     label |-> "CAPABILITY", property |-> "summaryVector", similarity |-> "cosine"]

\* CREATE FULLTEXT INDEX `capability-summary-text` IF NOT EXISTS
\* FOR (n:CAPABILITY) ON EACH [n.summary]
FulltextIndexQuery ==
    [kind |-> "FULLTEXT", name |-> "capability-summary-text", if_not_exists |-> TRUE,
     label |-> "CAPABILITY", property |-> "summary", similarity |-> "none"]

\* the store executing an index statement: with IF NOT EXISTS an index of that name
\* makes it a no-op, without it an error
execute_query(store, q) ==
    IF \E k \in 1..Len(store.indexes) : store.indexes[k].name = q.name
       THEN IF q.if_not_exists THEN store ELSE [store EXCEPT !.failed = TRUE]
       ELSE [store EXCEPT !.indexes = Append(@, [kind |-> q.kind, name |-> q.name,
                                                 label |-> q.label,
                                                 property |-> q.property])]

\* the whole of post_processing(processed_nodes = what run() returned)
PostProcessing ==
    /\ pc = "returned"
    /\ post_runs < MaxPostRuns
    /\ queries' = queries \o <<VectorIndexQuery, FulltextIndexQuery>>
    /\ indexes' = execute_query(execute_query(indexes, VectorIndexQuery), FulltextIndexQuery)
    /\ post_returned' = returned
    /\ post_runs' = post_runs + 1
    /\ UNCHANGED <<pc, additional_args, nodes, llm, completion_calls, capability_responses,
                   done, capability_texts, caps, warnings, capability_texts_batches,
                   embedding_calls, capability_embeddings, in_flight, returned, error>>

Next ==
    \/ Construct
    \/ RunStart
    \/ DispatchReturn
    \/ DispatchFail
    \/ Validate
    \/ Split
    \/ EmbedCall
    \/ EmbedReturn
    \/ EmbedFail
    \/ Return
    \/ PostProcessing

Spec == Init /\ [][Next]_vars

(***************************************************************************)
(* Vocabulary of the properties                                            *)
(***************************************************************************)
\* the taxonomy, as the set of its entries
Taxonomy == Range(capabilities(additional_args))

\* a capability string is in the taxonomy up to case
InTaxonomy(c) == \E t \in Taxonomy : lower(t) = lower(c)

\* what the completion of artifact i reported
ReportedBy(i) == llm[i].matched_capabilities

RECURSIVE ReportedUpTo(_)
\* every match reported by the first d completions, tagged with its artifact id,
\* artifact by artifact and in the order reported
ReportedUpTo(d) ==
    IF d = 0 THEN <<>>
    ELSE ReportedUpTo(d - 1)
         \o [j \in 1..Len(ReportedBy(d)) |->
                <<nodes[d].id, ReportedBy(d)[j].capability, ReportedBy(d)[j].description>>]

\* the loop over the completions has ended without an error
Validated ==
    \/ pc \in {"embedding", "embed_wait", "returned"}
    \/ pc = "raised" /\ error \in {NUMBER_SECTIONS_ERROR, "generate_embeddings failed"}

\* the descriptions have been split into batches
Batched ==
    \/ pc \in {"embedding", "embed_wait", "returned"}
    \/ pc = "raised" /\ error = "generate_embeddings failed"

BatchSizes == [k \in 1..Len(capability_texts_batches) |-> Len(capability_texts_batches[k])]

RECURSIVE Sum(_)
Sum(xs) == IF xs = <<>> THEN 0 ELSE Head(xs) + Sum(Tail(xs))

(***************************************************************************)
(* C1: when the completions yield zero accepted matches (no artifacts, or  *)
(* every reported capability outside the taxonomy), run() calls the        *)
(* embedding collaborator never, raises no error and returns the empty     *)
(* list.  Stated for the runs whose taxonomy is not empty, so that it does  *)
(* not rest on how an empty taxonomy is treated (C7).                      *)
(***************************************************************************)
C1_ZeroMatchesReturnEmpty ==
    (Validated /\ caps = <<>> /\ Taxonomy # {}) =>
        /\ error = "none"
        /\ embedding_calls = <<>>
        /\ (pc = "returned" => returned = <<>>)

(***************************************************************************)
(* C2: after d well-formed completions reporting K matches of which V are  *)
(* in the taxonomy, caps holds exactly those V, in artifact order and      *)
(* within an artifact in the order reported, each with the id of its own   *)
(* artifact; the K - V others were each dropped with one warning, and the  *)
(* matches and completions after them were still processed.                *)
(***************************************************************************)
C2_ValidatorKeepsValidInOrder ==
    LET reported == ReportedUpTo(done)
        valid == SelectSeq(reported, LAMBDA m : InTaxonomy(m[2]))
    IN  /\ caps = valid
        /\ Len(warnings) = Len(reported) - Len(valid)
        /\ capability_texts = [k \in 1..Len(valid) |-> valid[k][3]]
        /\ (Validated => done = Len(nodes))

C2_Witness ==
    /\ done = 2
    /\ Len(caps) >= 3
    /\ Len(warnings) >= 1
    /\ caps[1][1] = nodes[1].id
    /\ caps[Len(caps)][1] = nodes[2].id

(***************************************************************************)
(* C3: for N >= 1 accepted descriptions the embedding collaborator is      *)
(* called once per chunk, ceil(N/100) times in all; the chunks are         *)
(* contiguous slices whose concatenation in call order is the description  *)
(* list, any two chunk sizes differ by at most one and no chunk holds more *)
(* than 100 (250 gives 84, 83, 83; 100 gives one chunk; 101 gives 51, 50). *)
(***************************************************************************)
C3_BalancedChunks ==
    LET N == Len(capability_texts) IN
    (Batched /\ N >= 1) =>
        /\ Len(capability_texts_batches) * BatchLimit >= N
        /\ (Len(capability_texts_batches) - 1) * BatchLimit < N
        /\ concat([k \in 1..Len(capability_texts_batches) |->
                      [i \in 1..BatchSizes[k] |-> capability_texts_batches[k][i].np_str]])
             = capability_texts
        /\ \A a, b \in 1..Len(BatchSizes) :
              BatchSizes[a] - BatchSizes[b] <= 1 /\ BatchSizes[a] <= BatchLimit
        /\ Len(embedding_calls) <= Len(capability_texts_batches)
        /\ concat(embedding_calls) = SubSeq(capability_texts, 1, Len(concat(embedding_calls)))
        /\ \A k \in 1..Len(embedding_calls) : Len(embedding_calls[k]) = BatchSizes[k]
        /\ (pc = "returned" => Len(embedding_calls) = Len(capability_texts_batches))
        /\ (N = 250 => BatchSizes = <<84, 83, 83>>)
        /\ (N = 100 => BatchSizes = <<100>>)
        /\ (N = 101 => BatchSizes = <<51, 50>>)

C3_Witness ==
    /\ pc = "returned"
    /\ Len(capability_texts) = 250
    /\ Len(embedding_calls) = 3

(***************************************************************************)
(* C4: with a collaborator that returns one vector per text in order, the  *)
(* embedding list has one vector per accepted match and the i-th vector is *)
(* the embedding of the i-th match's description, also across chunk        *)
(* boundaries; so every Capability-Summary entity returned carries the     *)
(* embedding of its own summary, and every Capability entity an empty      *)
(* summaryVector.                                                          *)
(***************************************************************************)
C4_VectorsAlignedWithMatches ==
    /\ Len(capability_embeddings) <= Len(caps)
    /\ \A i \in 1..Len(capability_embeddings) :
          capability_embeddings[i] = Embedding(caps[i][3])
    /\ (pc = "returned" =>
          /\ Len(capability_embeddings) = Len(caps)
          /\ \A k \in 1..Len(returned) :
                IF returned[k].type = CAPABILITY_NODE_TYPE
                   THEN returned[k].summaryVector = <<>>
                   ELSE returned[k].summaryVector = Embedding(returned[k].summary))

C4_Witness ==
    /\ pc = "returned"
    /\ Len(capability_texts_batches) = 2
    /\ Len(caps) = 101
    /\ returned[101 + 52].summaryVector = Embedding(caps[52][3])

(***************************************************************************)
(* C5: a successful run() with V accepted matches returns 2*V entities, V  *)
(* Capability and V Capability-Summary entities, one of each kind per      *)
(* match; the two of a match have the same related_to_id (the list holding *)
(* the match's artifact id) and display name (the capability name), and    *)
(* the Capability entity's id is that name.                                *)
(***************************************************************************)
C5_TwoEntitiesPerMatch ==
    LET V == Len(caps) IN
    pc = "returned" =>
        /\ Len(returned) = 2 * V
        /\ Cardinality({k \in 1..Len(returned) : returned[k].type = CAPABILITY_NODE_TYPE}) = V
        /\ Cardinality({k \in 1..Len(returned) : returned[k].type = CODE_SUMMARY}) = V
        /\ Cardinality({returned[k].id : k \in (V + 1)..Len(returned)}) = V
        /\ \A k \in 1..V :
              /\ returned[k].type = CAPABILITY_NODE_TYPE
              /\ returned[k].id = caps[k][2]
              /\ returned[k].display_name = caps[k][2]
              /\ returned[k].related_to_id = <<caps[k][1]>>
              /\ returned[V + k].type = CODE_SUMMARY
              /\ returned[V + k].summary = caps[k][3]
              /\ returned[V + k].display_name = returned[k].display_name
              /\ returned[V + k].related_to_id = returned[k].related_to_id

C5_Witness ==
    /\ pc = "returned"
    /\ Len(nodes) = 2
    /\ Len(caps) = 3
    /\ returned[1].related_to_id # returned[3].related_to_id

(***************************************************************************)
(* C6: a run is all-or-nothing: when the completion dispatch fails, when   *)
(* any completion fails to parse, wherever it sits, or when the embedding  *)
(* call of any chunk fails, the error leaves run(), nothing is retried and *)
(* nothing is returned, not even what earlier completions or chunks gave;  *)
(* after a malformed completion no embedding call is ever made.            *)
(***************************************************************************)
C6_AllOrNothing ==
    /\ (error # "none" => pc \in {"raised", "config_error"})
    /\ (pc \in {"raised", "config_error"} => returned = <<>> /\ post_runs = 0)
    /\ \A i \in 1..done : llm[i].json
    /\ ((\E i \in 1..Len(llm) : ~llm[i].json) =>
           /\ pc # "returned"
           /\ embedding_calls = <<>>
           /\ (Len(capability_responses) > 0 /\ pc # "validating" =>
                  pc = "raised" /\ error = "OutputParserException"))
    /\ Len(completion_calls) <= 1
    /\ Len(embedding_calls) <= Len(capability_texts_batches)
    /\ (error = "generate_embeddings failed" => in_flight = 0 /\ pc = "raised")

C6_Witness ==
    /\ pc = "raised"
    /\ error = "OutputParserException"
    /\ done = 1
    /\ Len(caps) = 2

(***************************************************************************)
(* C7: constructing the stage fails with a configuration error whenever    *)
(* the taxonomy is empty, so that run() never starts with an empty         *)
(* taxonomy.                                                               *)
(***************************************************************************)
C7_EmptyTaxonomyRejected ==
    (pc # "new" /\ Taxonomy = {}) =>
        pc = "config_error" /\ error = CAPABILITIES_REQUIRED_ERROR

(***************************************************************************)
(* C8: the external calls of a run are strictly sequential: one            *)
(* batch_completion call with the N prompt pairs in artifact order, which  *)
(* has returned before any completion is validated; no embedding call      *)
(* before every completion is validated; the call for a chunk only after   *)
(* the call for the chunk before it has returned; never more than one      *)
(* request in flight.                                                      *)
(***************************************************************************)
C8_SequentialCalls ==
    /\ in_flight \in {0, 1}
    /\ (in_flight = 1 <=> pc \in {"dispatching", "embed_wait"})
    /\ (pc \notin {"new", "config_error", "ready"} =>
          /\ Len(completion_calls) = 1
          /\ Len(completion_calls[1]) = Len(nodes)
          /\ \A i \in 1..Len(nodes) :
                /\ completion_calls[1][i][1].role = "system"
                /\ completion_calls[1][i][2].role = "user"
                /\ completion_calls[1][i][2].content = nodes[i].page_content)
    /\ (pc = "dispatching" => capability_responses = <<>> /\ done = 0 /\ caps = <<>>)
    /\ (embedding_calls # <<>> => done = Len(nodes) /\ Len(capability_responses) = Len(nodes))
    /\ Len(capability_embeddings) =
          Sum([k \in 1..(Len(embedding_calls) - (IF pc = "embed_wait" \/ error = "generate_embeddings failed" THEN 1 ELSE 0)) |->
                  Len(embedding_calls[k])])

C8_Witness ==
    /\ pc = "embed_wait"
    /\ Len(embedding_calls) = 3
    /\ in_flight = 1

(***************************************************************************)
(* C9: a reported match is accepted exactly when its capability,           *)
(* lower-cased, equals the lower-cased form of a taxonomy entry, and the   *)
(* accepted match and its entities keep the capability as reported.        *)
(***************************************************************************)
C9_CaseInsensitiveAllowList ==
    LET kept == Range(caps)
        warned == Range(warnings)
    IN  /\ \A i \in 1..done : \A j \in 1..Len(ReportedBy(i)) :
              LET c == ReportedBy(i)[j] IN
              /\ (<<nodes[i].id, c.capability, c.description>> \in kept) <=> InTaxonomy(c.capability)
              /\ (c \in warned) <=> ~InTaxonomy(c.capability)
        /\ (pc = "returned" =>
               \A k \in 1..Len(returned) :
                  \E i \in 1..Len(nodes) :
                     /\ returned[k].related_to_id = <<nodes[i].id>>
                     /\ \E j \in 1..Len(ReportedBy(i)) :
                           returned[k].display_name = ReportedBy(i)[j].capability)

C9_Witness ==
    /\ pc = "returned"
    /\ Taxonomy = {"AUTH", "Logging"}
    /\ \E k \in 1..Len(returned) :
          returned[k].type = CAPABILITY_NODE_TYPE /\ returned[k].id = "Auth"
    /\ \E k \in 1..Len(returned) :
          returned[k].type = CODE_SUMMARY /\ returned[k].display_name = "logging"

(***************************************************************************)
(* C10: post_processing() issues two create-if-not-exists statements, the  *)
(* vector index first and the full-text index second, both for the         *)
(* Capability-Summary entities: the vector index on the vector field of    *)
(* the entity kind run() fills with embedding vectors, the full-text index *)
(* on the text field of the kind run() fills with descriptions; it returns *)
(* the processed nodes unchanged; run twice it creates no duplicate index  *)
(* and raises no error.                                                    *)
(***************************************************************************)
C10_IndexesOnSummaryEntities ==
    post_runs >= 1 =>
        /\ Len(queries) = 2 * post_runs
        /\ \A r \in 1..post_runs :
              /\ queries[2 * r - 1].kind = "VECTOR"
              /\ queries[2 * r].kind = "FULLTEXT"
        /\ \A k \in 1..Len(queries) : queries[k].if_not_exists
        /\ post_returned = returned
        /\ ~indexes.failed
        /\ Len(indexes.indexes) = 2
        /\ \A k \in 1..Len(indexes.indexes) : \A e \in Range(returned) :
              IF indexes.indexes[k].kind = "VECTOR"
                 THEN (e.type = indexes.indexes[k].label) <=> (e.summaryVector # <<>>)
                 ELSE (e.type = indexes.indexes[k].label) <=> (e.summary # "")
====
